---- MODULE Spec2Model ----
(***************************************************************************)
(* Model of the mini game engine: a Level holding GameObjects (positioned  *)
(* rectangles), the collision primitives of GameObject (collidesWith,      *)
(* allCollisions, distanceTo) and the movement resolution GameObject.move, *)
(* and the scheduling of Game: play, the tick loop, the render loop, pause *)
(* and loadLevel; the loading and release of assets by Level.load, the     *)
(* controls and currentActions, moveByVector, the draw order of render,   *)
(* Level.moveCamera, and the building of a game by addImage, addSound,     *)
(* addLevel and addObject.                                                 *)
(* The definitions follow the TypeScript engine of src/test/game.js; the   *)
(* older Level.objectsCollide of src/game-engine.js is modelled beside it. *)
(***************************************************************************)
EXTENDS Integers, Sequences, FiniteSets, TLC

\* ------------------------------------------------------------------------
\* Bounds of the model
\* ------------------------------------------------------------------------
\* Objects are placed at coordinates 0..MaxPos on both axes.
MaxPos == 3
\* Speed components range over -MaxSpeed..MaxSpeed pixels per tick.
MaxSpeed == 3
\* The long side of a wall; its short side, like a post's, is 1.
MaxSize == 4
\* The duration of a tick, 1000 / tickRate, in the time unit of the model.
TickDuration == 2
\* The clock runs from 0 to MaxTime; a frame comes 1..MaxStep units after the
\* previous one.
MaxTime == 9
MaxStep == 5
\* At most MaxPending update results, and MaxLoads level loads, are pending.
MaxPending == 2
MaxLoads == 2
\* fetch() is called at most MaxFetches times for an asset.
MaxFetches == 2
\* The components of the vectors given to moveByVector range over
\* -MaxVector..MaxVector, and the elevations of the objects over 0..MaxZ.
MaxVector == 8
MaxZ == 1
\* The speed of the player, in pixels per tick.
SceneMaxSpeed == 5

Pos == 0..MaxPos
Speeds == (-MaxSpeed)..MaxSpeed
Sizes == {1, MaxSize}

VARIABLES
  objects,  \* Level.objects, in insertion order: a sequence of GameObjects
  last,     \* the call in progress on a GameObject: its arguments and result
  game,     \* the scheduling fields of the Game object
  env,      \* the browser: clock, animation-frame callbacks, pending promises
  hist,     \* what has happened so far: calls made, time spent paused
  step,     \* the callback that ran last: what it saw and what it did
  assets,   \* Game.assets: the type and the decoded data of each asset
  levels,   \* Game.levels: the audio context and the camera of each level
  loads,    \* the Level.load() calls in progress and the fetches they await
  controls  \* Game.controls: the last state recorded for each control

vars == <<objects, last, game, env, hist, step, assets, levels, loads, controls>>
schedVars == <<game, env, hist, step>>
gameVars == <<assets, levels, loads, controls>>

\* ------------------------------------------------------------------------
\* GameObject
\* ------------------------------------------------------------------------
\* new GameObject(level, params): the fields the collision, movement and
\* render code reads.  position.z is kept in the field z, beside the x and y
\* that move() assigns; it and maxSpeed have the defaults of the constructor.
GameObject(x, y, width, height, collision, controllable) ==
  [position |-> [x |-> x, y |-> y], z |-> 0, maxSpeed |-> 0,
   width |-> width, height |-> height,
   collision |-> collision, controllable |-> controllable]

\* A collidesWith whose four comparisons all admit equality: rectangles whose
\* edges share a coordinate collide.
collidesWithInclusive(this, obj) ==
  /\ \/ (this.position.x <= obj.position.x /\ this.position.x + this.width >= obj.position.x)
     \/ (this.position.x <= obj.position.x + obj.width
           /\ this.position.x + this.width >= obj.position.x + obj.width)
  /\ \/ (this.position.y <= obj.position.y /\ this.position.y + this.height >= obj.position.y)
     \/ (this.position.y <= obj.position.y + obj.height
           /\ this.position.y + this.height >= obj.position.y + obj.height)

\* GameObject.collidesWith(obj): the overlap test, receiver first.
collidesWith(this, obj) ==
  /\ \/ (this.position.x <= obj.position.x /\ this.position.x + this.width > obj.position.x)
     \/ (this.position.x < obj.position.x + obj.width
           /\ this.position.x + this.width >= obj.position.x + obj.width)
  /\ \/ (this.position.y <= obj.position.y /\ this.position.y + this.height > obj.position.y)
     \/ (this.position.y < obj.position.y + obj.height
           /\ this.position.y + this.height >= obj.position.y + obj.height)

\* Level.objectsCollide(obj1, obj2) of the older engine: inclusive at the edges.
objectsCollide(obj1, obj2) ==
  IF \/ obj1.position.x + obj1.width < obj2.position.x
     \/ obj2.position.x + obj2.width < obj1.position.x
     \/ obj1.position.y + obj1.height < obj2.position.y
     \/ obj2.position.y + obj2.height < obj1.position.y
  THEN FALSE ELSE TRUE

\* An allCollisions that skips only the receiver and ignores exclude.
allCollisionsIgnoringExclude(objs, this, thisIdx, exclude, forceCollision) ==
  LET keep(i) ==
        /\ ~(i = thisIdx)
        /\ ~(~forceCollision /\ (~this.collision \/ ~objs[i].collision))
        /\ collidesWith(this, objs[i])
  IN SelectSeq([k \in 1..Len(objs) |-> k], keep)

\* An allCollisions that looks at the other object's collision flag only, as
\* the allCollisions of src/game-engine.js does.
allCollisionsOtherFlagOnly(objs, this, thisIdx, exclude, forceCollision) ==
  LET keep(i) ==
        /\ ~(i = thisIdx \/ i \in exclude)
        /\ ~(~forceCollision /\ ~objs[i].collision)
        /\ collidesWith(this, objs[i])
  IN SelectSeq([k \in 1..Len(objs) |-> k], keep)

\* GameObject.allCollisions({exclude, forceCollision}).  objs is
\* this.level.objects; an object is identified by its index in objs, and
\* thisIdx is 0 for an object that is not in the level (a probe).  The result
\* lists the indices of the colliding objects in iteration order.
allCollisions(objs, this, thisIdx, exclude, forceCollision) ==
  LET keep(i) ==
        /\ ~(i = thisIdx \/ i \in exclude)
        /\ ~(~forceCollision /\ (~this.collision \/ ~objs[i].collision))
        /\ collidesWith(this, objs[i])
  IN SelectSeq([k \in 1..Len(objs) |-> k], keep)

\* A distanceTo that measures the gaps without their sign.
distanceToUnsigned(this, obj) ==
  LET dx == IF obj.position.x + obj.width < this.position.x
              THEN this.position.x - (obj.position.x + obj.width)
            ELSE IF this.position.x + this.width < obj.position.x
              THEN obj.position.x - (this.position.x + this.width)
            ELSE 0
      dy == IF obj.position.y + obj.height < this.position.y
              THEN this.position.y - (obj.position.y + obj.height)
            ELSE IF this.position.y + this.height < obj.position.y
              THEN obj.position.y - (this.position.y + this.height)
            ELSE 0
  IN IF ~collidesWith(this, obj) THEN [x |-> dx, y |-> dy] ELSE [x |-> 0, y |-> 0]

\* GameObject.distanceTo(obj): the signed gap on each axis, 0 when colliding.
distanceTo(this, obj) ==
  LET dx == IF obj.position.x + obj.width < this.position.x
              THEN (obj.position.x + obj.width) - this.position.x
            ELSE IF this.position.x + this.width < obj.position.x
              THEN obj.position.x - (this.position.x + this.width)
            ELSE 0
      dy == IF obj.position.y + obj.height < this.position.y
              THEN (obj.position.y + obj.height) - this.position.y
            ELSE IF this.position.y + this.height < obj.position.y
              THEN obj.position.y - (this.position.y + this.height)
            ELSE 0
  IN IF ~collidesWith(this, obj) THEN [x |-> dx, y |-> dy] ELSE [x |-> 0, y |-> 0]

\* Math.min(...values) over a non-empty list of numbers.
MathMin(values) ==
  CHOOSE v \in {values[k] : k \in 1..Len(values)} :
    \A k \in 1..Len(values) : v <= values[k]

\* A probe that takes the collision flag of the mover.
GhostWithOwnFlag(this, x, y) ==
  GameObject(x, y, this.width, this.height, this.collision, FALSE)

\* The probe move() builds: same size as the mover, collision: true, not in
\* the level.
Ghost(this, x, y) == GameObject(x, y, this.width, this.height, TRUE, FALSE)

\* The locals of GameObject.move() for the object at index i of objs: the
\* three probes, what they collide with, the closing distance, and the
\* position { x, y } the method computes.  this.speed is assigned by the
\* caller right before move() and read nowhere else: it is an argument here.
moveTrace(objs, i, speed) ==
  LET this == objs[i]
      oldPosition == this.position
      x0 == this.position.x + speed.x
      y0 == this.position.y + speed.y
      tempXY == Ghost(this, x0, y0)
      collisionsXY == allCollisions(objs, tempXY, 0, {i}, FALSE)
      collidesXY == Len(collisionsXY) > 0
      distances == [k \in 1..Len(collisionsXY) |-> distanceTo(this, objs[collisionsXY[k]])]
      minDistance ==
        IF collidesXY
          THEN [x |-> MathMin([k \in 1..Len(distances) |-> distances[k].x]),
                y |-> MathMin([k \in 1..Len(distances) |-> distances[k].y])]
          ELSE [x |-> 0, y |-> 0]
      x1 == x0 + minDistance.x
      y1 == y0 + minDistance.y
      tempX == Ghost(this, x1, oldPosition.y)
      tempY == Ghost(this, oldPosition.x, y1)
      collidesX == collidesXY /\ Len(allCollisions(objs, tempX, 0, {i}, FALSE)) > 0
      collidesY == collidesXY /\ Len(allCollisions(objs, tempY, 0, {i}, FALSE)) > 0
      x == IF ~collidesXY THEN x0
           ELSE IF collidesX /\ ~collidesY THEN x1 - speed.x
           ELSE IF collidesY /\ ~collidesX THEN x1
           ELSE x1 - speed.x
      y == IF ~collidesXY THEN y0
           ELSE IF collidesX /\ ~collidesY THEN y1
           ELSE IF collidesY /\ ~collidesX THEN y1 - speed.y
           ELSE y1 - speed.y
  IN [collisionsXY |-> collisionsXY, collidesXY |-> collidesXY,
      minDistance |-> minDistance, tempX |-> tempX, tempY |-> tempY,
      collidesX |-> collidesX, collidesY |-> collidesY, x |-> x, y |-> y]

\* A move() that stops dead when the three probes all collide.
moveFullStop(objs, i, speed) ==
  LET t == moveTrace(objs, i, speed)
  IN IF t.collidesXY /\ t.collidesX /\ t.collidesY
       THEN objs[i].position
       ELSE [x |-> t.x, y |-> t.y]

\* GameObject.move(): the position { x, y } it returns.
move(objs, i, speed) ==
  LET t == moveTrace(objs, i, speed) IN [x |-> t.x, y |-> t.y]

\* NaN, the result of 0 / 0: a value apart from the coordinates and the
\* speeds of the model, which the operators test for before they compute.
NaN == -1000

\* Math.sqrt(n) for the n that are squares of a whole number.
Sqrt(n) == CHOOSE r \in 0..n : r * r = n

\* The this.speed that moveByVector({ x, y }) assigns, in exact arithmetic.
\* With r = Math.sqrt(x**2 + y**2), cos is x / r, which is 0 / 0 for the
\* vector (0, 0); Math.sqrt(1 - cos**2) is Math.sqrt(r**2 - x**2) / r, and
\* sin is y times it.  NaN goes through every operation.
moveByVectorSpeed(this, x, y) ==
  LET r == Sqrt(x * x + y * y)
      root == Sqrt(r * r - x * x)
      max == this.maxSpeed
  IN IF r = 0 THEN [x |-> NaN, y |-> NaN]
     ELSE [x |-> (max * x) \div r, y |-> (max * y * root) \div r]

\* GameObject.moveByVector(vector, options): the speed it assigns and the
\* position move() returns.  With a speed of NaN, move() computes x and y
\* as NaN; no comparison of collidesWith holds for a probe placed there, so
\* no probe collides and NaN is the position returned, and assigned.
moveByVector(objs, i, vector) ==
  LET speed == moveByVectorSpeed(objs[i], vector.x, vector.y)
  IN [speed |-> speed,
      result |-> IF speed.x = NaN THEN [x |-> NaN, y |-> NaN]
                 ELSE move(objs, i, speed)]

\* ------------------------------------------------------------------------
\* Game: scheduling
\* ------------------------------------------------------------------------
\* state.level when no level is loaded: undefined, not an instance of Level.
NoLevel == "none"

\* The ids of the levels registered with addLevel, and the ids loadLevel is
\* called with: a registered one and one that no level has.
Levels == {"level0", "level1"}
LevelIds == {"level0", "missing"}

\* The scheduling fields of a Game as its field initialisers leave them.
NewGame ==
  [paused |-> FALSE, computing |-> FALSE, rendering |-> FALSE,
   lastTick |-> 0, lastRender |-> 0, level |-> NoLevel]

\* requestUpdates(ticks) called once however many ticks are due, but invoking
\* update once per tick.
requestUpdatesPerTick(g, ticks) ==
  IF ticks <= 0 THEN [game |-> g, calls |-> <<>>]
  ELSE IF g.computing THEN [game |-> g, calls |-> <<>>]
  ELSE [game |-> [g EXCEPT !.lastTick = @ + ticks * TickDuration],
        calls |-> [k \in 1..ticks |-> 1]]

\* requestUpdates(ticks): the game after the call and the arguments of the
\* update invocations it made.  computing is set before the invocation and
\* cleared right after it, whether or not update returned a pending result.
requestUpdates(g, ticks) ==
  IF ticks <= 0 THEN [game |-> g, calls |-> <<>>]
  ELSE IF g.computing THEN [game |-> g, calls |-> <<>>]
  ELSE [game |-> [g EXCEPT !.lastTick = @ + ticks * TickDuration,
                           !.computing = FALSE],
        calls |-> <<ticks>>]

\* A gameLoop that finds one tick due at most, however late the frame is.
gameLoopTicksSingle(g, frameTime) ==
  LET nextTick == g.lastTick + TickDuration
  IN IF frameTime > nextTick THEN 1 ELSE 0

\* The local ticks of gameLoop(frameTime).
gameLoopTicks(g, frameTime) ==
  LET nextTick == g.lastTick + TickDuration
  IN IF frameTime > nextTick
       THEN (frameTime - g.lastTick) \div TickDuration
       ELSE 0

\* gameLoop(frameTime), after it has requested its next animation frame.
gameLoop(g, frameTime) ==
  IF g.paused THEN [game |-> g, calls |-> <<>>, ticks |-> 0]
  ELSE LET ticks == gameLoopTicks(g, frameTime)
           r == requestUpdates(g, ticks)
       IN [game |-> r.game, calls |-> r.calls, ticks |-> ticks]

\* The comparator render() sorts with: by position.z.
compareZ(a, b) == IF a.z < b.z THEN -1 ELSE IF a.z > b.z THEN 1 ELSE 0

\* Array.prototype.sort is stable: an element goes behind those already
\* placed that do not compare greater than it.
RECURSIVE insertSorted(_, _, _)
insertSorted(objs, sorted, i) ==
  IF sorted = <<>> THEN <<i>>
  ELSE IF compareZ(objs[Head(sorted)], objs[i]) > 0 THEN <<i>> \o sorted
  ELSE <<Head(sorted)>> \o insertSorted(objs, Tail(sorted), i)

RECURSIVE stableSort(_, _)
stableSort(objs, n) ==
  IF n = 0 THEN <<>> ELSE insertSorted(objs, stableSort(objs, n - 1), n)

\* An orderedObjects sorted on a.z, a field the objects do not have, as in
\* src/game-engine.js and src/unnamed/part_002: every comparison gives 0 and
\* the objects keep their insertion order.
orderedObjectsUnsorted(objs) == [k \in 1..Len(objs) |-> k]

\* The local orderedObjects of render(): the objects of the level, named by
\* their index in the level, sorted by elevation.
orderedObjects(objs) == stableSort(objs, Len(objs))

\* A render(frameTime) without the paused test, as in src/game-engine.js.
renderUnlessRendering(g, frameTime, objs) ==
  IF g.rendering THEN [game |-> g, rendered |-> FALSE, draws |-> 0, order |-> <<>>]
  ELSE [game |-> [g EXCEPT !.lastRender = frameTime, !.rendering = FALSE],
        rendered |-> TRUE,
        draws |-> IF g.level = NoLevel THEN 0 ELSE Len(objs),
        order |-> IF g.level = NoLevel THEN <<>> ELSE orderedObjects(objs)]

\* Game.render(frameTime): the game after the call, whether it got past its
\* guards (and so dispatched renderend), how many draw callbacks it invoked,
\* one per object of state.level, and the objects in the order it drew them.
render(g, frameTime, objs) ==
  IF g.rendering THEN [game |-> g, rendered |-> FALSE, draws |-> 0, order |-> <<>>]
  ELSE IF g.paused THEN [game |-> g, rendered |-> FALSE, draws |-> 0, order |-> <<>>]
  ELSE [game |-> [g EXCEPT !.lastRender = frameTime, !.rendering = FALSE],
        rendered |-> TRUE,
        draws |-> IF g.level = NoLevel THEN 0 ELSE Len(objs),
        order |-> IF g.level = NoLevel THEN <<>> ELSE orderedObjects(objs)]

\* A play() that starts its loops whatever state.level is.
playCallbacksUnchecked(level) == <<"render", "gameLoop">>

\* Game.play() once start has resolved: the callbacks it starts, renderLoop
\* then gameLoop, or none when it throws 'No level loaded'.
playCallbacks(level) ==
  IF level = NoLevel THEN <<>> ELSE <<"render", "gameLoop">>

\* The browser before play(): the clock, the phase of play(), the callbacks
\* requested for the next animation frame, those of the current frame still
\* to run and its timestamp, the number of update results still pending, and
\* the ids of the loadLevel calls awaiting their level's load(), and the keys
\* of the keyboard that are down.
NewEnv ==
  [now |-> 0, phase |-> "idle", queue |-> <<>>, running |-> <<>>,
   frameTime |-> 0, updating |-> 0, loading |-> <<>>, held |-> {}]

\* The sum of the tick counts of a list of update invocations.
RECURSIVE Total(_)
Total(calls) == IF calls = <<>> THEN 0 ELSE Head(calls) + Total(Tail(calls))

\* Nothing has happened yet.  baseline is the lastTick play() set, delivered
\* the sum of the tick counts passed to update so far; userPaused tells that
\* pause() was called and unpause() has not been since.
NewHist ==
  [plays |-> 0, starts |-> 0, updated |-> FALSE, rendered |-> FALSE,
   pausedFor |-> 0, unpaused |-> FALSE, baseline |-> 0, delivered |-> 0,
   userPaused |-> FALSE]

\* No callback has run.
NoStep == [op |-> "none"]

\* ------------------------------------------------------------------------
\* Game: assets, levels and controls
\* ------------------------------------------------------------------------
\* The assets registered with addImage and addSound, by id, with their type.
AssetTypes == [boole |-> "image", tile |-> "image", jump |-> "sound"]
AssetIds == DOMAIN AssetTypes

\* An asset without data (the field is missing, undefined or null: falsy) and
\* one that carries its decoded bitmap or audio buffer.
NoData == "none"
Decoded == "decoded"

\* Game.assets as addImage and addSound leave it: no asset has data.  fetches
\* counts the fetch(asset.path) calls made for the asset.
NewAssets ==
  [a \in AssetIds |-> [type |-> AssetTypes[a], data |-> NoData, fetches |-> 0]]

\* The assets that carry decoded data.
DecodedAssets(as) == {a \in AssetIds : as[a].data # NoData}

\* The assets the objects of each level list in their assets parameter: one is
\* shared by the two levels.
LevelAssets == [level0 |-> {"boole", "tile"}, level1 |-> {"boole", "jump"}]

\* The camera of a level as wide and as high as the game.
NewCamera == [x |-> 0, y |-> 0, z |-> 0, perspective |-> 0]

\* A moveCamera that moves every object of the level by the distance the
\* camera has travelled.
moveCameraMovingObjects(objs, camera, target) ==
  [camera |-> target,
   objects |-> [k \in 1..Len(objs) |->
                  [objs[k] EXCEPT !.position.x = @ + camera.x - target.x,
                                  !.position.y = @ + camera.y - target.y,
                                  !.z = @ + camera.z - target.z]]]

\* Level.moveCamera({ x, y, z, angle }): the camera is replaced, and the loop
\* over the objects of the level has an empty body.  (In src/game-engine.js
\* the loop calls obj.moveTo, which returns a position and assigns nothing.)
moveCamera(objs, camera, target) == [camera |-> target, objects |-> objs]

\* Game.levels after the addLevel calls.  ctx[l] tells whether level l was
\* created after play() had created the audio context: a level copies
\* game.audioCtx when it is constructed.
NewLevels(ctx) == [l \in Levels |-> [audioCtx |-> ctx[l], camera |-> NewCamera]]

\* Level.load(): the assets it fetches, those of the level's objects that
\* carry no data when it is called.
loadFetches(as, id) == {a \in LevelAssets[id] : as[a].data = NoData}

\* Level.load(): the data a fetched asset gets.  A sound is decoded by the
\* level's audio context, this.audioCtx?.decodeAudioData(buffer), which is
\* undefined for a level that has no audio context; an image by
\* createImageBitmap.
decode(asset, level) ==
  IF asset.type = "sound" /\ ~level.audioCtx THEN NoData ELSE Decoded

\* Level.load() after its fetches: the assets once the data of those that
\* the objects of state.level use and the objects of this level do not has
\* been set to null.
release(as, g, id) ==
  IF g.level \in Levels
    THEN [a \in AssetIds |->
            IF a \in LevelAssets[g.level] /\ a \notin LevelAssets[id]
              THEN [as[a] EXCEPT !.data = NoData]
              ELSE as[a]]
    ELSE as

\* A loadLevel that goes on as if every fetch had succeeded.
loadSettledIgnoringFailure(as, g, id, ok) ==
  [assets |-> release(as, g, id),
   game |-> [g EXCEPT !.level = id, !.paused = FALSE], threw |-> FALSE]

\* loadLevel(id) for a registered level once Promise.all has settled.  When
\* it fulfilled, load() releases the assets of the old level and loadLevel
\* sets state.level and clears paused; when it rejected, the rejection leaves
\* load() and loadLevel at their await and the rest of both is not run.
loadSettled(as, g, id, ok) ==
  IF ok
    THEN [assets |-> release(as, g, id),
          game |-> [g EXCEPT !.level = id, !.paused = FALSE], threw |-> FALSE]
    ELSE [assets |-> as, game |-> g, threw |-> TRUE]

\* Game.actions: the defaults of the class and the actions added by
\* addActions, here jump, which shares ArrowUp with up.
Actions ==
  [up |-> <<"ArrowUp", "KeyW">>, down |-> <<"ArrowDown", "KeyS">>,
   left |-> <<"ArrowLeft", "KeyA">>, right |-> <<"ArrowRight", "KeyD">>,
   jump |-> <<"Space", "ArrowUp">>]

\* The controls the constructor enters in Game.controls: those of the default
\* actions, all false.
DefaultControls ==
  {"ArrowUp", "KeyW", "ArrowDown", "KeyS", "ArrowLeft", "KeyA", "ArrowRight", "KeyD"}
NewControls == [c \in DefaultControls |-> FALSE]

\* this.controls.get(id): undefined, which is falsy, for a control the map
\* does not hold.
controlsGet(ctrls, id) == IF id \in DOMAIN ctrls THEN ctrls[id] ELSE FALSE

\* this.controls.set(id, value)
controlsSet(ctrls, id, value) ==
  [c \in DOMAIN ctrls \cup {id} |-> IF c = id THEN value ELSE ctrls[c]]

\* The keydown listener of initControls: a repeated event is ignored.  The
\* test typeof this.controls.get(id) === undefined compares a string with
\* undefined and never holds, so every other event is recorded.
keydown(ctrls, event) ==
  IF event.repeat THEN ctrls ELSE controlsSet(ctrls, event.code, TRUE)

\* The keyup listener of initControls.
keyup(ctrls, event) == controlsSet(ctrls, event.code, FALSE)

\* A currentActions that wants every control of an action down.
currentActionsAllHeld(ctrls) ==
  {action \in DOMAIN Actions :
     \A k \in 1..Len(Actions[action]) : controlsGet(ctrls, Actions[action][k])}

\* get currentActions(): the set of the actions one of whose controls is
\* true in Game.controls.
currentActions(ctrls) ==
  {action \in DOMAIN Actions :
     \E k \in 1..Len(Actions[action]) : controlsGet(ctrls, Actions[action][k])}

\* ------------------------------------------------------------------------
\* State machine
\* ------------------------------------------------------------------------
\* No call is in progress.
NoCall == [op |-> "none"]

Init ==
  /\ objects = <<>>
  /\ last = NoCall
  /\ game = NewGame /\ env = NewEnv /\ hist = NewHist /\ step = NoStep
  /\ assets = NewAssets /\ levels = NewLevels([l \in Levels |-> TRUE]) /\ loads = <<>>
  /\ controls = NewControls

\* The start callback builds the level with one addObject call per entry, as
\* the demo game does: a collidable wall lying across the middle of the level,
\* an obstacle of any shape placed anywhere, and last the player, the one
\* controllable object, a 2x2 square created with collision true or false.
Roster == <<"wall", "obstacle", "player">>

ObjectParams(kind) ==
  CASE kind = "wall" ->
         {GameObject(0, (MaxPos + 1) \div 2, MaxSize, 1, TRUE, FALSE)}
    [] kind = "obstacle" ->
         {GameObject(x, y, w, h, c, FALSE) :
            x \in Pos, y \in Pos, w \in Sizes, h \in Sizes, c \in BOOLEAN}
    [] kind = "player" ->
         {GameObject(x, y, 2, 2, c, TRUE) : x \in Pos, y \in Pos, c \in BOOLEAN}

Ids == 1..Len(objects)

\* Calls on the objects are made once the level is built, on the objects the
\* update callback selects (the controllable ones), and while these are within
\* the coordinates of the model: the demo clamps them to the game area.
Playing ==
  /\ Len(objects) = Len(Roster)
  /\ \A i \in Ids : objects[i].controllable =>
        objects[i].position.x \in Pos /\ objects[i].position.y \in Pos

\* Level.addObject(params)
AddObject(params) ==
  /\ last = NoCall
  /\ objects' = Append(objects, params)
  /\ last' = NoCall

\* A move() that commits the position it has computed whatever apply is.
MoveAlwaysApplied(i, sx, sy, apply) ==
  /\ last = NoCall /\ Playing
  /\ objects[i].controllable
  /\ LET speed == [x |-> sx, y |-> sy]
         result == move(objects, i, speed)
     IN /\ objects' = [objects EXCEPT ![i].position = result]
        /\ last' = [op |-> "move", this |-> i, speed |-> speed, apply |-> apply,
                    oldPosition |-> objects[i].position, result |-> result]

\* The caller assigns this.speed of a controllable object, as moveByVector
\* does, and calls move({ apply }) on it; with apply the position is committed.
Move(i, sx, sy, apply) ==
  /\ last = NoCall /\ Playing
  /\ objects[i].controllable
  /\ LET speed == [x |-> sx, y |-> sy]
         result == move(objects, i, speed)
     IN /\ objects' = IF apply THEN [objects EXCEPT ![i].position = result] ELSE objects
        /\ last' = [op |-> "move", this |-> i, speed |-> speed, apply |-> apply,
                    oldPosition |-> objects[i].position, result |-> result]

\* a.collidesWith(b) called on two objects of the level.
CallCollidesWith(a, b) ==
  /\ last = NoCall /\ Playing
  /\ last' = [op |-> "collidesWith", this |-> a, obj |-> b,
              result |-> collidesWith(objects[a], objects[b])]
  /\ UNCHANGED objects

\* a.distanceTo(b) called on two objects of the level.
CallDistanceTo(a, b) ==
  /\ last = NoCall /\ Playing
  /\ last' = [op |-> "distanceTo", this |-> a, obj |-> b,
              result |-> distanceTo(objects[a], objects[b])]
  /\ UNCHANGED objects

\* e.allCollisions({ exclude, forceCollision }) called on an object of the level.
CallAllCollisions(e, exclude, forceCollision) ==
  /\ last = NoCall /\ Playing
  /\ last' = [op |-> "allCollisions", this |-> e, exclude |-> exclude,
              forceCollision |-> forceCollision,
              result |-> allCollisions(objects, objects[e], e, exclude, forceCollision)]
  /\ UNCHANGED objects

\* The call in progress returns to its caller.
Return ==
  /\ last # NoCall
  /\ last' = NoCall
  /\ UNCHANGED objects

\* Between two calls the start callback adds the next object of the roster, or
\* a method of an object of the level is called; a call in progress returns.
Next ==
  \/ /\ last = NoCall /\ Len(objects) < Len(Roster)
     /\ \E p \in ObjectParams(Roster[Len(objects) + 1]) : AddObject(p)
     /\ UNCHANGED <<schedVars, gameVars>>
  \/ /\ last = NoCall /\ Playing
     /\ \/ \E i \in Ids, sx \in Speeds, sy \in Speeds, apply \in BOOLEAN :
             Move(i, sx, sy, apply)
        \/ \E a \in Ids, b \in Ids : CallCollidesWith(a, b)
        \/ \E a \in Ids, b \in Ids : CallDistanceTo(a, b)
        \/ \E e \in Ids, x \in Ids, forceCollision \in BOOLEAN :
             \E exclude \in {{}, {x}} : CallAllCollisions(e, exclude, forceCollision)
     /\ UNCHANGED <<schedVars, gameVars>>
  \/ Return /\ UNCHANGED <<schedVars, gameVars>>

Spec == Init /\ [][Next]_vars

\* ------------------------------------------------------------------------
\* State machine of the scheduling
\* ------------------------------------------------------------------------
\* The objects of the level the game runs: each has a draw callback.
LevelObjects ==
  <<GameObject(0, 0, 1, 1, TRUE, FALSE), GameObject(1, 0, 1, 1, TRUE, TRUE)>>

LoopInit ==
  /\ objects = LevelObjects
  /\ last = NoCall
  /\ game = NewGame /\ env = NewEnv /\ hist = NewHist /\ step = NoStep
  /\ assets = NewAssets /\ levels = NewLevels([l \in Levels |-> TRUE]) /\ loads = <<>>
  /\ controls = NewControls

\* No animation frame is being processed: event handlers and the
\* continuations of awaited promises run between frames.
Quiet == env.running = <<>>

\* The time spent paused since lastTick was last set, d units later.
PausedAfter(d) == IF game.paused THEN hist.pausedFor + d ELSE hist.pausedFor

\* A play() that starts its loops before start has resolved.
PlayWithoutAwait ==
  /\ Quiet /\ env.phase = "idle"
  /\ game' = [game EXCEPT !.lastTick = env.now, !.lastRender = env.now]
  /\ env' = [env EXCEPT !.phase = "starting", !.queue = <<"render", "gameLoop">>]
  /\ hist' = [hist EXCEPT !.plays = @ + 1, !.starts = @ + 1, !.pausedFor = 0,
                          !.baseline = env.now]
  /\ step' = [op |-> "play"]
  /\ UNCHANGED <<gameVars, objects, last>>

\* Game.play() up to its await: it sets lastTick and lastRender to the clock
\* and invokes start.  The demo calls play() once.
Play ==
  /\ Quiet /\ env.phase = "idle"
  /\ game' = [game EXCEPT !.lastTick = env.now, !.lastRender = env.now]
  /\ env' = [env EXCEPT !.phase = "starting"]
  /\ hist' = [hist EXCEPT !.plays = @ + 1, !.starts = @ + 1, !.pausedFor = 0,
                          !.baseline = env.now]
  /\ step' = [op |-> "play"]
  /\ UNCHANGED <<gameVars, objects, last>>

\* Time passes while start is awaited.
Wait(d) ==
  /\ env.phase = "starting"
  /\ env.now + d <= MaxTime
  /\ env' = [env EXCEPT !.now = @ + d]
  /\ hist' = [hist EXCEPT !.pausedFor = PausedAfter(d)]
  /\ step' = [op |-> "wait"]
  /\ UNCHANGED <<gameVars, objects, last, game>>

\* start has resolved and play() continues: it throws when no level is
\* loaded, else renderLoop() requests a frame for render and
\* gameLoop(performance.now()) runs at once, requesting a frame for itself.
\* The update callback returns a pending result when async.
StartResolved(async) ==
  /\ env.phase = "starting"
  /\ async => env.updating < MaxPending
  /\ LET callbacks == playCallbacks(game.level)
         r == gameLoop(game, env.now)
         invoked == r.calls # <<>>
     IN IF callbacks = <<>>
          THEN /\ env' = [env EXCEPT !.phase = "failed"]
               /\ step' = [op |-> "start resolved", level |-> game.level,
                           threw |-> TRUE, calls |-> <<>>]
               /\ UNCHANGED <<game, hist>>
          ELSE /\ game' = r.game
               /\ env' = [env EXCEPT !.phase = "playing",
                                     !.queue = callbacks,
                                     !.updating = IF invoked /\ async THEN @ + 1 ELSE @]
               /\ hist' = [hist EXCEPT !.updated = @ \/ invoked,
                                       !.pausedFor = IF invoked THEN 0 ELSE @,
                                       !.delivered = @ + Total(r.calls)]
               /\ step' = [op |-> "start resolved", level |-> game.level,
                           threw |-> FALSE, calls |-> r.calls]
  /\ UNCHANGED <<gameVars, objects, last>>

\* An animation frame begins d units after the previous one: the callbacks
\* requested so far will run with its timestamp.
BeginFrame(d) ==
  /\ Quiet /\ env.queue # <<>>
  /\ env.now + d <= MaxTime
  /\ env' = [env EXCEPT !.now = @ + d, !.frameTime = env.now + d,
                        !.running = env.queue, !.queue = <<>>]
  /\ hist' = [hist EXCEPT !.pausedFor = PausedAfter(d)]
  /\ step' = [op |-> "frame"]
  /\ UNCHANGED <<gameVars, objects, last, game>>

\* The frame runs gameLoop(frameTime).
GameLoopFrame(async) ==
  /\ env.running # <<>> /\ Head(env.running) = "gameLoop"
  /\ async => env.updating < MaxPending
  /\ LET r == gameLoop(game, env.frameTime)
         invoked == r.calls # <<>>
     IN /\ game' = r.game
        /\ env' = [env EXCEPT !.running = Tail(@),
                              !.queue = Append(@, "gameLoop"),
                              !.updating = IF invoked /\ async THEN @ + 1 ELSE @]
        /\ hist' = [hist EXCEPT !.updated = @ \/ invoked,
                                !.pausedFor = IF invoked THEN 0 ELSE @,
                                !.delivered = @ + Total(r.calls)]
        /\ step' = [op |-> "gameLoop", frameTime |-> env.frameTime,
                    paused |-> game.paused, lastTick |-> game.lastTick,
                    updating |-> env.updating, pausedFor |-> hist.pausedFor,
                    loading |-> Len(env.loading),
                    ticks |-> r.ticks, calls |-> r.calls,
                    advanced |-> r.game.lastTick - game.lastTick]
  /\ UNCHANGED <<gameVars, objects, last>>

\* The frame runs render(frameTime); a render that got past its guards ends
\* by dispatching renderend, whose listener requests the next frame for
\* render.
RenderFrame ==
  /\ env.running # <<>> /\ Head(env.running) = "render"
  /\ LET r == render(game, env.frameTime, objects)
     IN /\ game' = r.game
        /\ env' = [env EXCEPT !.running = Tail(@),
                              !.queue = IF r.rendered THEN Append(@, "render") ELSE @]
        /\ hist' = [hist EXCEPT !.rendered = @ \/ r.rendered]
        /\ step' = [op |-> "render", frameTime |-> env.frameTime,
                    paused |-> game.paused, updating |-> env.updating,
                    loading |-> Len(env.loading),
                    rendered |-> r.rendered, draws |-> r.draws,
                    lastRender |-> r.game.lastRender]
  /\ UNCHANGED <<gameVars, objects, last>>

\* Game.pause()
Pause ==
  /\ Quiet
  /\ game' = [game EXCEPT !.paused = TRUE]
  /\ hist' = [hist EXCEPT !.userPaused = TRUE]
  /\ step' = [op |-> "pause"]
  /\ UNCHANGED <<gameVars, objects, last, env>>

\* Game.unpause()
Unpause ==
  /\ Quiet
  /\ game' = [game EXCEPT !.paused = FALSE]
  /\ hist' = [hist EXCEPT !.unpaused = @ \/ env.loading # <<>>,
                          !.userPaused = FALSE]
  /\ step' = [op |-> "unpause"]
  /\ UNCHANGED <<gameVars, objects, last, env>>

\* Game.loadLevel(id) up to its await.
LoadLevel(id) ==
  /\ Quiet
  /\ Len(env.loading) < MaxLoads
  /\ game' = [game EXCEPT !.paused = TRUE]
  /\ env' = [env EXCEPT !.loading = Append(@, id)]
  /\ step' = [op |-> "loadLevel", id |-> id]
  /\ UNCHANGED <<gameVars, objects, last, hist>>

\* A loadLevel that ends by putting paused back to what pause() and
\* unpause() had last made it.
LoadDoneKeepingPause(k) ==
  /\ Quiet
  /\ k \in 1..Len(env.loading)
  /\ LET id == env.loading[k]
         rest == [j \in 1..(Len(env.loading) - 1) |->
                    IF j < k THEN env.loading[j] ELSE env.loading[j + 1]]
     IN /\ game' = [game EXCEPT !.level = IF id \in Levels THEN id ELSE NoLevel,
                                !.paused = hist.userPaused]
        /\ env' = [env EXCEPT !.loading = rest]
        /\ hist' = [hist EXCEPT !.unpaused = @ /\ rest # <<>>]
        /\ step' = [op |-> "loadLevel done", id |-> id, pending |-> Len(rest),
                    threw |-> FALSE]
  /\ UNCHANGED <<gameVars, objects, last>>

\* The load() awaited by the k-th pending loadLevel call has completed and
\* the call continues: newLevel is undefined when no level has the id, and
\* then newLevel?.load() is undefined and awaiting it raises nothing.
LoadDone(k) ==
  /\ Quiet
  /\ k \in 1..Len(env.loading)
  /\ LET id == env.loading[k]
         rest == [j \in 1..(Len(env.loading) - 1) |->
                    IF j < k THEN env.loading[j] ELSE env.loading[j + 1]]
     IN /\ game' = [game EXCEPT !.level = IF id \in Levels THEN id ELSE NoLevel,
                                !.paused = FALSE]
        /\ env' = [env EXCEPT !.loading = rest]
        /\ hist' = [hist EXCEPT !.unpaused = @ /\ rest # <<>>]
        /\ step' = [op |-> "loadLevel done", id |-> id, pending |-> Len(rest),
                    threw |-> FALSE]
  /\ UNCHANGED <<gameVars, objects, last>>

\* The pending result of an update invocation settles.
UpdateSettled ==
  /\ env.updating > 0
  /\ env' = [env EXCEPT !.updating = @ - 1]
  /\ UNCHANGED <<gameVars, objects, last, game, hist, step>>

LoopNext ==
  \/ Play
  \/ \E d \in 1..MaxStep : Wait(d)
  \/ \E async \in BOOLEAN : StartResolved(async)
  \/ \E d \in 1..MaxStep : BeginFrame(d)
  \/ \E async \in BOOLEAN : GameLoopFrame(async)
  \/ RenderFrame
  \/ Pause
  \/ Unpause
  \/ \E id \in LevelIds : LoadLevel(id)
  \/ \E k \in 1..MaxLoads : LoadDone(k)
  \/ UpdateSettled

LoopSpec == LoopInit /\ [][LoopNext]_vars

\* ------------------------------------------------------------------------
\* State machine of level loading
\* ------------------------------------------------------------------------
\* The game with its two levels registered and no level loaded.  Each level
\* was created either before play() or after it, in the start callback.
AssetInit ==
  /\ objects = <<>>
  /\ last = NoCall
  /\ game = NewGame /\ env = NewEnv /\ hist = NewHist /\ step = NoStep
  /\ assets = NewAssets /\ loads = <<>>
  /\ \E ctx \in [Levels -> BOOLEAN] : levels = NewLevels(ctx)
  /\ controls = NewControls

\* The calls in progress but the k-th.
Without(calls, k) ==
  [j \in 1..(Len(calls) - 1) |-> IF j < k THEN calls[j] ELSE calls[j + 1]]

\* loadLevel(id) for a registered level, up to the await of Promise.all in
\* load(): paused is set, and fetch is called for each asset of the level
\* that has no data.  solo tells that no other load is in progress during
\* this one, and again that this call directly follows the completion of
\* such a load of the same level.
CallLoadLevel(id) ==
  /\ Len(loads) < MaxLoads
  /\ LET fetched == loadFetches(assets, id)
         again == loads = <<>> /\ step.op = "load settled" /\ step.id = id
                    /\ ~step.threw /\ step.solo
         others == [k \in 1..Len(loads) |-> [loads[k] EXCEPT !.solo = FALSE]]
     IN /\ \A a \in fetched : assets[a].fetches < MaxFetches
        /\ game' = [game EXCEPT !.paused = TRUE]
        /\ assets' = [a \in AssetIds |->
                        IF a \in fetched THEN [assets[a] EXCEPT !.fetches = @ + 1]
                                         ELSE assets[a]]
        /\ loads' = Append(others, [id |-> id, awaiting |-> fetched,
                                    fetched |-> fetched, failed |-> FALSE,
                                    solo |-> loads = <<>>, again |-> again,
                                    began |-> DecodedAssets(assets)])
        /\ step' = [op |-> "loadLevel", id |-> id, asset |-> "none", ok |-> TRUE,
                    threw |-> FALSE, level |-> game.level,
                    decoded |-> DecodedAssets(assets), fetched |-> fetched,
                    solo |-> loads = <<>>, again |-> again,
                    began |-> DecodedAssets(assets),
                    first |-> IF again THEN step.fetched ELSE {}]
  /\ UNCHANGED <<objects, last, env, hist, levels, controls>>

\* The loads in progress that had nothing to fetch: their Promise.all is
\* fulfilled already and they go on before the browser runs another task.
Ready == {k \in 1..Len(loads) : loads[k].awaiting = {} /\ ~loads[k].failed}

\* The fetch and decoding of asset a started by the k-th load() in progress
\* ends: with ok the asset gets its data, otherwise the promise rejects.
\* Promise.all settles on the first rejection, or when the last asset is
\* done, and loadLevel goes on in the same turn; the fetches of a load()
\* that has failed still run to their end.
FetchSettled(k, a, ok) ==
  /\ Ready = {}
  /\ k \in 1..Len(loads)
  /\ a \in loads[k].awaiting
  /\ LET l == loads[k]
         got == IF ok THEN [assets EXCEPT
                             ![a].data = decode(assets[a], levels[l.id])]
                      ELSE assets
         left == l.awaiting \ {a}
         settles == ~l.failed /\ (~ok \/ left = {})
         r == loadSettled(got, game, l.id, ok)
     IN /\ assets' = IF settles THEN r.assets ELSE got
        /\ game' = IF settles THEN r.game ELSE game
        /\ loads' = IF left = {} THEN Without(loads, k)
                    ELSE [loads EXCEPT ![k].awaiting = left,
                                       ![k].failed = @ \/ ~ok]
        /\ step' = [op |-> IF settles THEN "load settled" ELSE "fetch settled",
                    id |-> l.id, asset |-> a, ok |-> ok,
                    threw |-> settles /\ r.threw, level |-> game.level,
                    decoded |-> DecodedAssets(assets), fetched |-> l.fetched,
                    solo |-> l.solo, again |-> l.again,
                    began |-> l.began, first |-> {}]
  /\ UNCHANGED <<objects, last, env, hist, levels, controls>>

\* The k-th load() in progress had nothing to fetch: Promise.all fulfils and
\* load() and loadLevel go on, once the code that called loadLevel has
\* returned, the earliest such call first.
LoadFulfilled(k) ==
  /\ k \in Ready /\ \A j \in Ready : k <= j
  /\ LET l == loads[k]
         r == loadSettled(assets, game, l.id, TRUE)
     IN /\ assets' = r.assets
        /\ game' = r.game
        /\ loads' = Without(loads, k)
        /\ step' = [op |-> "load settled", id |-> l.id, asset |-> "none",
                    ok |-> TRUE, threw |-> r.threw, level |-> game.level,
                    decoded |-> DecodedAssets(assets), fetched |-> l.fetched,
                    solo |-> l.solo, again |-> l.again,
                    began |-> l.began, first |-> {}]
  /\ UNCHANGED <<objects, last, env, hist, levels, controls>>

AssetNext ==
  \/ \E id \in Levels : CallLoadLevel(id)
  \/ \E k \in 1..MaxLoads, a \in AssetIds, ok \in BOOLEAN : FetchSettled(k, a, ok)
  \/ \E k \in 1..MaxLoads : LoadFulfilled(k)

AssetSpec == AssetInit /\ [][AssetNext]_vars

\* ------------------------------------------------------------------------
\* State machine of building a game
\* ------------------------------------------------------------------------
\* In this state machine Game.assets and Game.levels are the lists the calls
\* of addImage, addSound and addLevel have built so far, an asset or a level
\* is referred to by its position in its list (0: none), and objects lists
\* the objects of all levels, each with the position of its level.
MaxAssets == 2
MaxLevels == 2
MaxEntities == 1

\* An id is a string or a number; strings are numbered.  NoId is the null an
\* omitted id parameter defaults to.
Str(n) == [kind |-> "string", n |-> n]
Num(n) == [kind |-> "number", n |-> n]
NoId == [kind |-> "null", n |-> 0]

\* The id parameters passed to addLevel, the ids passed to loadLevel, the ids
\* of the assets registered and the assets parameters of the objects.
LevelParams == {NoId, Num(1), Str(1)}
LoadParams == {Num(1), Str(1)}
RegisteredIds == {"boole", "jump"}
AssetParams == {{"boole"}, {"boole", "jump"}}

\* new Level(game, { id }): this.id = id || game.levels.length.  The level
\* is created in the start callback, after play() has made the audio context.
NewLevel(lvls, id) ==
  [id |-> IF id = NoId THEN Num(Len(lvls)) ELSE id,
   audioCtx |-> TRUE, camera |-> NewCamera]

\* this.levels.find(level => level.id === id): the first level with the id.
find(lvls, id) ==
  IF \E k \in 1..Len(lvls) : lvls[k].id = id
    THEN CHOOSE k \in 1..Len(lvls) :
           lvls[k].id = id /\ \A j \in 1..(k - 1) : lvls[j].id # id
    ELSE 0

\* this.game.assets.filter(a => assets.includes(a.id)): the registered assets
\* whose id is among names, in the order of registration.
filterAssets(as, names) ==
  SelectSeq([k \in 1..Len(as) |-> k], LAMBDA k : as[k].id \in names)

\* The set load() collects: the assets in the lists of the objects of level l.
collectAssets(objs, l) ==
  UNION {{objs[k].assets[j] : j \in 1..Len(objs[k].assets)} :
           k \in {n \in 1..Len(objs) : objs[n].level = l}}

BuildInit ==
  /\ objects = <<>>
  /\ last = NoCall
  /\ game = [NewGame EXCEPT !.level = 0]
  /\ env = NewEnv /\ hist = NewHist /\ step = NoStep
  /\ assets = <<>> /\ levels = <<>> /\ loads = <<>>
  /\ controls = NewControls

\* An addImage or addSound that also appends the new asset to the list of
\* every object that names its id.
AddAssetResolving(id) ==
  /\ Len(assets) < MaxAssets
  /\ assets' = Append(assets, [type |-> AssetTypes[id], id |-> id,
                               data |-> NoData])
  /\ objects' = [k \in 1..Len(objects) |->
                   IF id \in objects[k].names
                     THEN [objects[k] EXCEPT !.assets = Append(@, Len(assets) + 1)]
                     ELSE objects[k]]
  /\ step' = [op |-> "addAsset", id |-> id]
  /\ UNCHANGED <<last, game, env, hist, levels, loads, controls>>

\* addImage(id, path) or addSound(id, path), by the type of the asset.
AddAsset(id) ==
  /\ Len(assets) < MaxAssets
  /\ assets' = Append(assets, [type |-> AssetTypes[id], id |-> id,
                               data |-> NoData])
  /\ step' = [op |-> "addAsset", id |-> id]
  /\ UNCHANGED <<objects, last, game, env, hist, levels, loads, controls>>

\* addLevel({ id }), or addLevel({}) when id is NoId.
AddLevel(id) ==
  /\ Len(levels) < MaxLevels
  /\ levels' = Append(levels, NewLevel(levels, id))
  /\ step' = [op |-> "addLevel", id |-> id]
  /\ UNCHANGED <<objects, last, game, env, hist, assets, loads, controls>>

\* level.addObject({ assets: names }) on the l-th level.  born records how
\* many assets were registered when the object was constructed.
AddEntity(l, names) ==
  /\ Len(objects) < MaxEntities
  /\ l \in 1..Len(levels)
  /\ objects' = Append(objects, [level |-> l, names |-> names,
                                 assets |-> filterAssets(assets, names),
                                 born |-> Len(assets)])
  /\ step' = [op |-> "addObject", id |-> levels[l].id]
  /\ UNCHANGED <<last, game, env, hist, assets, levels, loads, controls>>

\* loadLevel(id) from its call to its end, with every fetch successful and
\* no other call made meanwhile.  For an id no level has, newLevel is
\* undefined and so is state.level afterwards.
LoadLevelCompleted(id) ==
  /\ LET found == find(levels, id)
         used == IF found = 0 THEN {} ELSE collectAssets(objects, found)
         fetched == {a \in used : assets[a].data = NoData}
         old == IF found = 0 \/ game.level = 0 THEN {}
                ELSE collectAssets(objects, game.level)
     IN /\ assets' = [a \in 1..Len(assets) |->
                        IF a \in fetched
                          THEN [assets[a] EXCEPT
                                  !.data = decode(assets[a], levels[found])]
                        ELSE IF a \in old \ used
                          THEN [assets[a] EXCEPT !.data = NoData]
                        ELSE assets[a]]
        /\ game' = [game EXCEPT !.level = found, !.paused = FALSE]
        /\ step' = [op |-> "loadLevel", id |-> id, found |-> found,
                    fetched |-> fetched]
  /\ UNCHANGED <<objects, last, env, hist, levels, loads, controls>>

BuildNext ==
  \/ \E id \in RegisteredIds : AddAsset(id)
  \/ \E id \in LevelParams : AddLevel(id)
  \/ \E l \in 1..MaxLevels, names \in AssetParams : AddEntity(l, names)
  \/ \E id \in LoadParams : LoadLevelCompleted(id)

BuildSpec == BuildInit /\ [][BuildNext]_vars

\* ------------------------------------------------------------------------
\* State machine of the controls
\* ------------------------------------------------------------------------
\* The keys of the keyboard: controls of the default actions, the second
\* control of jump, and a key no action uses.
Keys == {"ArrowUp", "KeyW", "ArrowDown", "KeyS", "ArrowLeft", "Space", "KeyQ"}

\* The game once play() has called initControls: no key is down.
InputInit ==
  /\ objects = <<>>
  /\ last = NoCall
  /\ game = NewGame /\ env = NewEnv /\ hist = NewHist /\ step = NoStep
  /\ assets = NewAssets /\ levels = NewLevels([l \in Levels |-> TRUE]) /\ loads = <<>>
  /\ controls = NewControls

\* A key goes down: the browser dispatches keydown with repeat false.
KeyDown(key) ==
  /\ key \notin env.held
  /\ env' = [env EXCEPT !.held = @ \cup {key}]
  /\ controls' = keydown(controls, [code |-> key, repeat |-> FALSE])
  /\ step' = [op |-> "keydown", code |-> key, repeat |-> FALSE,
              active |-> currentActions(controls)]
  /\ UNCHANGED <<objects, last, game, hist, assets, levels, loads>>

\* A key stays down: the browser dispatches keydown with repeat true.
KeyRepeat(key) ==
  /\ key \in env.held
  /\ controls' = keydown(controls, [code |-> key, repeat |-> TRUE])
  /\ step' = [op |-> "keydown", code |-> key, repeat |-> TRUE,
              active |-> currentActions(controls)]
  /\ UNCHANGED <<objects, last, game, env, hist, assets, levels, loads>>

\* A key that was down goes up: the browser dispatches keyup.
KeyUp(key) ==
  /\ key \in env.held
  /\ env' = [env EXCEPT !.held = @ \ {key}]
  /\ controls' = keyup(controls, [code |-> key, repeat |-> FALSE])
  /\ step' = [op |-> "keyup", code |-> key, repeat |-> FALSE,
              active |-> currentActions(controls)]
  /\ UNCHANGED <<objects, last, game, hist, assets, levels, loads>>

InputNext ==
  \/ \E key \in Keys : KeyDown(key)
  \/ \E key \in Keys : KeyRepeat(key)
  \/ \E key \in Keys : KeyUp(key)

InputSpec == InputInit /\ [][InputNext]_vars

\* ------------------------------------------------------------------------
\* State machine of a level in play
\* ------------------------------------------------------------------------
\* The level: a floor that nothing collides with, a wall, the player, who
\* moves by SceneMaxSpeed pixels per tick at most, and a sign added last.
\* The elevations of the wall and the sign vary.
SceneObjects(zs) ==
  <<GameObject(0, 0, MaxSize, MaxSize, FALSE, FALSE),
    [GameObject(0, MaxPos, MaxSize, 1, TRUE, FALSE) EXCEPT !.z = zs[1]],
    [GameObject(0, 0, 2, 2, TRUE, TRUE) EXCEPT !.z = 1, !.maxSpeed = SceneMaxSpeed],
    [GameObject(1, 1, 1, 1, FALSE, FALSE) EXCEPT !.z = zs[2]]>>

\* The vectors moveByVector is called with: (0, 0), the vectors along an
\* axis, and the multiples of (3, 4) and (4, 3), whose length is a multiple
\* of 5.  Their speeds are whole numbers for a maxSpeed that is one too.
Signs == {-1, 1}
Vectors ==
  {[x |-> 0, y |-> 0]}
    \cup {[x |-> s * k, y |-> 0] : s \in Signs, k \in 1..MaxVector}
    \cup {[x |-> 0, y |-> s * k] : s \in Signs, k \in 1..MaxVector}
    \cup {[x |-> sx * 3 * m, y |-> sy * 4 * m] :
            sx \in Signs, sy \in Signs, m \in 1..(MaxVector \div 4)}
    \cup {[x |-> sx * 4 * m, y |-> sy * 3 * m] :
            sx \in Signs, sy \in Signs, m \in 1..(MaxVector \div 4)}

\* The targets of moveCamera.
Targets == [x : {0, MaxPos}, y : {0}, z : {0, 1}, angle : {0}]

\* The game runs level0, built by the start callback.
SceneInit ==
  /\ \E zs \in [1..2 -> 0..MaxZ] : objects = SceneObjects(zs)
  /\ last = NoCall
  /\ game = [NewGame EXCEPT !.level = "level0"]
  /\ env = NewEnv /\ hist = NewHist /\ step = NoStep
  /\ assets = NewAssets /\ levels = NewLevels([l \in Levels |-> TRUE]) /\ loads = <<>>
  /\ controls = NewControls

\* The update callback calls moveByVector(vector, { apply }) on a
\* controllable object that is within the coordinates of the model.
MoveByVector(i, vector, apply) ==
  /\ objects[i].controllable
  /\ objects[i].position.x \in Pos /\ objects[i].position.y \in Pos
  /\ LET r == moveByVector(objects, i, vector)
     IN /\ objects' = IF apply THEN [objects EXCEPT ![i].position = r.result]
                       ELSE objects
        /\ step' = [op |-> "moveByVector", this |-> i, vector |-> vector,
                    apply |-> apply, speed |-> r.speed, result |-> r.result,
                    before |-> objects]
  /\ UNCHANGED <<last, game, env, hist, gameVars>>

\* level.moveCamera(target) on the level the game runs.
MoveCamera(target) ==
  /\ game.level \in Levels
  /\ LET r == moveCamera(objects, levels[game.level].camera, target)
     IN /\ levels' = [levels EXCEPT ![game.level].camera = r.camera]
        /\ objects' = r.objects
        /\ step' = [op |-> "moveCamera", target |-> target,
                    camera |-> levels[game.level].camera, before |-> objects]
  /\ UNCHANGED <<last, game, env, hist, assets, loads, controls>>

\* The render loop calls render(frameTime).
RenderScene ==
  /\ LET r == render(game, env.now, objects)
     IN /\ game' = r.game
        /\ step' = [op |-> "render", rendered |-> r.rendered, order |-> r.order,
                    paused |-> game.paused, before |-> objects]
  /\ UNCHANGED <<objects, last, env, hist, gameVars>>

SceneNext ==
  \/ \E i \in 1..Len(objects), vector \in Vectors, apply \in BOOLEAN :
       MoveByVector(i, vector, apply)
  \/ \E target \in Targets : MoveCamera(target)
  \/ RenderScene
  \/ Pause
  \/ Unpause

SceneSpec == SceneInit /\ [][SceneNext]_vars

\* ------------------------------------------------------------------------
\* Vocabulary of the properties
\* ------------------------------------------------------------------------
\* A move() call with apply = true has just committed its position.
Moved == last.op = "move" /\ last.apply

\* The level as it was when the move() call in progress started.
Before == [objects EXCEPT ![last.this].position = last.oldPosition]

\* The mover before the call, and the locals of the call.
Mover == Before[last.this]
Locals == moveTrace(Before, last.this, last.speed)

\* The other objects of the level that have collision = true.
Blockers == {o \in Ids : o # last.this /\ objects[o].collision}

\* Two rectangles share some area: their extents intersect on both axes,
\* edges that merely touch not counted.
ExtentsMeetX(a, b) ==
  a.position.x < b.position.x + b.width /\ b.position.x < a.position.x + a.width
ExtentsMeetY(a, b) ==
  a.position.y < b.position.y + b.height /\ b.position.y < a.position.y + a.height
Overlaps(a, b) == ExtentsMeetX(a, b) /\ ExtentsMeetY(a, b)

\* The mover's rectangle placed at (x, y).
MoverAt(x, y) == [Mover EXCEPT !.position = [x |-> x, y |-> y]]

\* An edge of a and an edge of b share a coordinate on the x axis (y axis) and
\* their extents intersect on the other axis.
TouchX(a, b) ==
  /\ \/ a.position.x + a.width = b.position.x
     \/ b.position.x + b.width = a.position.x
  /\ ExtentsMeetY(a, b)
TouchY(a, b) ==
  /\ \/ a.position.y + a.height = b.position.y
     \/ b.position.y + b.height = a.position.y
  /\ ExtentsMeetX(a, b)

\* ------------------------------------------------------------------------
\* C1
\* ------------------------------------------------------------------------
\* C1: a mover that overlaps no other collidable entity before move() overlaps
\* none after a move() with apply = true.
C1_NoOverlapAfterMove ==
  (Moved /\ \A o \in Blockers : ~Overlaps(Mover, objects[o]))
    => \A o \in Blockers : ~Overlaps(objects[last.this], objects[o])

\* ------------------------------------------------------------------------
\* C2
\* ------------------------------------------------------------------------
\* The mover went from one side of o to the other on the x axis (on the y
\* axis), its extent on the other axis meeting o's both before and after: the
\* straight path between the two positions runs through o.
ThroughX(o) ==
  /\ ExtentsMeetY(Mover, o) /\ ExtentsMeetY(objects[last.this], o)
  /\ \/ /\ Mover.position.x + Mover.width <= o.position.x
        /\ objects[last.this].position.x >= o.position.x + o.width
     \/ /\ Mover.position.x >= o.position.x + o.width
        /\ objects[last.this].position.x + Mover.width <= o.position.x
ThroughY(o) ==
  /\ ExtentsMeetX(Mover, o) /\ ExtentsMeetX(objects[last.this], o)
  /\ \/ /\ Mover.position.y + Mover.height <= o.position.y
        /\ objects[last.this].position.y >= o.position.y + o.height
     \/ /\ Mover.position.y >= o.position.y + o.height
        /\ objects[last.this].position.y + Mover.height <= o.position.y

\* C2: move() never commits a position on the far side of a collidable entity
\* that lies across the mover's path.
C2_NeverThrough ==
  Moved => \A o \in Blockers : ~ThroughX(objects[o]) /\ ~ThroughY(objects[o])

\* ------------------------------------------------------------------------
\* C3
\* ------------------------------------------------------------------------
\* The mover's edge touches w on the x axis (on the y axis), their extents meet
\* on the other axis, and the speed points into w.
FlushX(w) ==
  /\ ExtentsMeetY(Mover, w)
  /\ \/ w.position.x = Mover.position.x + Mover.width /\ last.speed.x > 0
     \/ w.position.x + w.width = Mover.position.x /\ last.speed.x < 0
FlushY(w) ==
  /\ ExtentsMeetX(Mover, w)
  /\ \/ w.position.y = Mover.position.y + Mover.height /\ last.speed.y > 0
     \/ w.position.y + w.height = Mover.position.y /\ last.speed.y < 0

\* The rectangle at position + speed overlaps w: the full move runs into w.
Into(w) ==
  Overlaps(MoverAt(Mover.position.x + last.speed.x, Mover.position.y + last.speed.y), w)

\* The mover's rectangle at (x, y) overlaps no other collidable entity.
FreeAt(x, y) == \A o \in Blockers : ~Overlaps(MoverAt(x, y), objects[o])

\* C3: flush against a wall on one axis, with the move along the other axis
\* alone collision-free, a diagonal move commits exactly the open component.
C3_SlideAlongFlushWall ==
  Moved =>
    /\ (/\ \E w \in Blockers : FlushX(objects[w]) /\ Into(objects[w])
        /\ last.speed.y # 0
        /\ FreeAt(Mover.position.x, Mover.position.y + last.speed.y))
         => objects[last.this].position =
              [x |-> Mover.position.x, y |-> Mover.position.y + last.speed.y]
    /\ (/\ \E w \in Blockers : FlushY(objects[w]) /\ Into(objects[w])
        /\ last.speed.x # 0
        /\ FreeAt(Mover.position.x + last.speed.x, Mover.position.y))
         => objects[last.this].position =
              [x |-> Mover.position.x + last.speed.x, y |-> Mover.position.y]

\* ------------------------------------------------------------------------
\* C4
\* ------------------------------------------------------------------------
\* The position the move() call in progress aims at: position + speed.
Target ==
  [x |-> Mover.position.x + last.speed.x, y |-> Mover.position.y + last.speed.y]

\* C4: when the rectangle at position + speed overlaps no other entity that
\* has collision = true, move() commits and returns exactly position + speed.
C4_FullVectorApplied ==
  (Moved /\ FreeAt(Target.x, Target.y))
    => objects[last.this].position = Target /\ last.result = Target

\* A diagonal move was committed in full, and it brought the mover edge to
\* edge with another collidable entity that the target does not overlap.
C4_Witness ==
  /\ Moved /\ FreeAt(Target.x, Target.y)
  /\ last.speed.x # 0 /\ last.speed.y # 0
  /\ objects[last.this].position = Target
  /\ \E w \in Blockers :
       /\ ~TouchX(Mover, objects[w]) /\ ~TouchY(Mover, objects[w])
       /\ \/ TouchX(objects[last.this], objects[w])
          \/ TouchY(objects[last.this], objects[w])

\* ------------------------------------------------------------------------
\* C5
\* ------------------------------------------------------------------------
\* C5: when the full-vector probe collides and the X-only probe is free, the
\* move commits the adjusted x and the original y; Y-only motion is committed
\* only when the X-only probe collides and the Y-only probe does not.
C5_XOnlyFirst ==
  (Moved /\ Locals.collidesXY) =>
    /\ ~Locals.collidesX =>
         objects[last.this].position =
           [x |-> Locals.tempX.position.x, y |-> Mover.position.y]
    /\ (/\ objects[last.this].position.x = Mover.position.x
        /\ objects[last.this].position.y # Mover.position.y)
         => (Locals.collidesX /\ ~Locals.collidesY)

\* ------------------------------------------------------------------------
\* C6
\* ------------------------------------------------------------------------
\* C6: when the three probes all collide, the position is exactly unchanged.
C6_AllBlockedUnchanged ==
  (Moved /\ Locals.collidesXY /\ Locals.collidesX /\ Locals.collidesY)
    => objects[last.this].position = Mover.position

\* C6 as amended: when the three probes all collide, the speed is dropped on
\* both axes and the mover is left at its old position plus the closing
\* distance: on each axis the smallest signed distanceTo over the entities the
\* full-vector probe collides with.
ClosingDistance ==
  LET hit == {o \in Blockers :
                collidesWith(MoverAt(Target.x, Target.y), objects[o])}
      least(S) == CHOOSE v \in S : \A u \in S : v <= u
  IN [x |-> least({distanceTo(Mover, objects[o]).x : o \in hit}),
      y |-> least({distanceTo(Mover, objects[o]).y : o \in hit})]

AllBlocked == Locals.collidesXY /\ Locals.collidesX /\ Locals.collidesY

C6_AllBlockedClosesDistance ==
  (Moved /\ AllBlocked)
    => objects[last.this].position =
         [x |-> Mover.position.x + ClosingDistance.x,
          y |-> Mover.position.y + ClosingDistance.y]

\* A mover that overlapped nothing had its three probes collide and was
\* shifted by a closing distance that is not zero.
C6_Witness ==
  /\ Moved /\ AllBlocked
  /\ FreeAt(Mover.position.x, Mover.position.y)
  /\ ClosingDistance # [x |-> 0, y |-> 0]
  /\ objects[last.this].position # Mover.position

\* ------------------------------------------------------------------------
\* C7
\* ------------------------------------------------------------------------
\* C7: a mover touching a wall that moves straight toward it keeps its position.
C7_StraightIntoWallStays ==
  Moved =>
    /\ ((\E w \in Blockers : FlushX(objects[w])) /\ last.speed.y = 0)
         => objects[last.this].position = Mover.position
    /\ ((\E w \in Blockers : FlushY(objects[w])) /\ last.speed.x = 0)
         => objects[last.this].position = Mover.position

\* ------------------------------------------------------------------------
\* C8
\* ------------------------------------------------------------------------
\* C8: collidesWith is symmetric.
C8_CollidesWithSymmetric ==
  last.op = "collidesWith"
    => last.result = collidesWith(objects[last.obj], objects[last.this])

\* ------------------------------------------------------------------------
\* C9
\* ------------------------------------------------------------------------
Touching ==
  /\ last.op = "collidesWith"
  /\ \/ TouchX(objects[last.this], objects[last.obj])
     \/ TouchY(objects[last.this], objects[last.obj])

\* C9: collidesWith reports two rectangles whose edges touch as colliding.
C9_TouchingCollides == Touching => last.result = TRUE

\* C9 as amended: collidesWith reports two rectangles of positive size whose
\* edges touch as not colliding, whichever of the two is the receiver; the
\* inclusive test is the older Level.objectsCollide, which reports them as
\* colliding.
C9_TouchingDoesNotCollide ==
  Touching =>
    /\ last.result = FALSE
    /\ objectsCollide(objects[last.this], objects[last.obj])

\* collidesWith was called on two objects whose edges touch.
C9_Witness == Touching /\ last.this # last.obj

\* ------------------------------------------------------------------------
\* C10
\* ------------------------------------------------------------------------
\* The entities of the list an allCollisions call returned.
Returned == {last.result[k] : k \in 1..Len(last.result)}

\* C10: allCollisions on E returns, each once, exactly the entities o of the
\* level other than E and outside exclude that E collides with and, unless
\* forceCollision is set, that have collision = true like E.
C10_AllCollisionsExact ==
  last.op = "allCollisions" =>
    /\ Returned =
         {o \in Ids :
            /\ o # last.this /\ o \notin last.exclude
            /\ collidesWith(objects[last.this], objects[o])
            /\ \/ last.forceCollision
               \/ objects[last.this].collision /\ objects[o].collision}
    /\ Cardinality(Returned) = Len(last.result)

\* An allCollisions call with the default flags returned one entity and left
\* out another that the receiver collides with, because of a collision flag.
C10_Witness ==
  /\ last.op = "allCollisions" /\ ~last.forceCollision /\ last.exclude = {}
  /\ Len(last.result) = 1
  /\ \E o \in Ids \ Returned :
       /\ o # last.this
       /\ collidesWith(objects[last.this], objects[o])
       /\ ~objects[o].collision

\* ------------------------------------------------------------------------
\* Vocabulary of the scheduling properties
\* ------------------------------------------------------------------------
\* The callback that ran last is gameLoop (render), run by an animation frame.
TickFrame == step.op = "gameLoop"
DrawFrame == step.op = "render"

\* The time between lastTick and the timestamp of the frame gameLoop ran in.
Elapsed == step.frameTime - step.lastTick

\* ------------------------------------------------------------------------
\* C11
\* ------------------------------------------------------------------------
\* C11: in an unpaused frame in which gameLoop finds n >= 1 ticks due while no
\* update is in flight, update is invoked exactly once, with n, and lastTick
\* advances by n * tickDuration.
C11_CoalescedTicks ==
  (TickFrame /\ ~step.paused /\ step.ticks >= 1 /\ step.updating = 0)
    => /\ step.calls = <<step.ticks>>
       /\ step.advanced = step.ticks * TickDuration

\* Three ticks were due in one frame and update was invoked once, with 3.
C11_Witness ==
  /\ TickFrame /\ ~step.paused /\ step.updating = 0
  /\ step.ticks = 3 /\ step.calls = <<3>>

\* ------------------------------------------------------------------------
\* C12
\* ------------------------------------------------------------------------
\* C12: in every unpaused frame the number of ticks gameLoop treats as due is
\* floor((frameTime - lastTick) / tickDuration), and update is invoked in the
\* frame exactly when that number is greater than 0.
C12_TicksDueIsFloor ==
  (TickFrame /\ ~step.paused)
    => /\ step.ticks = Elapsed \div TickDuration
       /\ (step.calls # <<>>) <=> (Elapsed \div TickDuration > 0)

\* ------------------------------------------------------------------------
\* C13
\* ------------------------------------------------------------------------
\* C13: a frame at whose start paused is true invokes no update, does not
\* advance lastTick and invokes no draw callback.
C13_PausedFrameIdle ==
  /\ (TickFrame /\ step.paused) => (step.calls = <<>> /\ step.advanced = 0)
  /\ (DrawFrame /\ step.paused) => (~step.rendered /\ step.draws = 0)

\* A frame ran gameLoop while paused, with a level loaded, renders done
\* before, and more than a tick's time elapsed since lastTick.
C13_Witness ==
  /\ TickFrame /\ step.paused
  /\ Elapsed > TickDuration
  /\ game.level # NoLevel /\ hist.rendered

\* ------------------------------------------------------------------------
\* C14
\* ------------------------------------------------------------------------
\* C14: time spent paused never contributes ticks: the ticks passed to an
\* update fit in the time elapsed since lastTick less the time spent paused.
C14_NoCatchUp ==
  (TickFrame /\ step.calls # <<>>)
    => step.calls[1] * TickDuration <= Elapsed - step.pausedFor

\* ------------------------------------------------------------------------
\* C15
\* ------------------------------------------------------------------------
\* A frame for render is requested or about to run.
RenderPending ==
  \/ \E k \in 1..Len(env.queue) : env.queue[k] = "render"
  \/ \E k \in 1..Len(env.running) : env.running[k] = "render"

\* C15: while the loops run and the game is not paused, between two frames a
\* render is due at the next animation frame, also after a pause: rendering
\* resumes and keeps occurring.
C15_RenderingResumes ==
  (env.phase = "playing" /\ Quiet /\ ~game.paused) => RenderPending

\* ------------------------------------------------------------------------
\* C16
\* ------------------------------------------------------------------------
\* C16: at most one update is in flight at any time, pending results counted.
C16_OneUpdateInFlight == env.updating <= 1

\* ------------------------------------------------------------------------
\* C17
\* ------------------------------------------------------------------------
\* C17: no render begins while the result of an update is pending, and no
\* update begins while a render is in progress.
C17_UpdateRenderSerialized ==
  /\ (DrawFrame /\ step.rendered) => step.updating = 0
  /\ (TickFrame /\ step.calls # <<>>) => ~game.rendering

\* ------------------------------------------------------------------------
\* C18
\* ------------------------------------------------------------------------
\* C18: until start has resolved no update and no render has been invoked and
\* none is scheduled; start is invoked once per play().
C18_NothingBeforeStartResolves ==
  /\ env.phase \in {"idle", "starting"}
       => /\ ~hist.updated /\ ~hist.rendered
          /\ env.queue = <<>> /\ env.running = <<>>
  /\ hist.starts = hist.plays

\* start is still awaited, with a level loaded, not paused, and more than a
\* tick's time gone since play() set lastTick.
C18_Witness ==
  /\ env.phase = "starting" /\ hist.starts = 1
  /\ game.level # NoLevel /\ ~game.paused
  /\ env.now > game.lastTick + TickDuration

\* ------------------------------------------------------------------------
\* C19
\* ------------------------------------------------------------------------
\* C19: play() throws whenever no level is loaded once start has resolved,
\* and then neither loop is started: no update, no render, no frame requested.
C19_NoLevelNoLoops ==
  /\ (step.op = "start resolved" /\ step.level = NoLevel)
       => (step.threw /\ env.phase = "failed")
  /\ env.phase = "failed"
       => /\ ~hist.updated /\ ~hist.rendered
          /\ env.queue = <<>> /\ env.running = <<>>

\* play() has thrown, and a level was loaded afterwards.
C19_Witness ==
  /\ env.phase = "failed"
  /\ game.level # NoLevel /\ ~game.paused

\* ------------------------------------------------------------------------
\* C20
\* ------------------------------------------------------------------------
\* C20: while a loadLevel call awaits its level's load(), paused is true,
\* whatever other loadLevel calls do meanwhile (unpause() not being called).
C20_PausedWhileLoading ==
  (env.loading # <<>> /\ ~hist.unpaused) => game.paused

\* ------------------------------------------------------------------------
\* C21
\* ------------------------------------------------------------------------
\* C21: a loadLevel call whose id no registered level has ends with an error
\* raised to its caller and leaves paused true.
C21_UnknownLevelFailsPaused ==
  (step.op = "loadLevel done" /\ step.id \notin Levels)
    => (step.threw /\ game.paused)

\* ------------------------------------------------------------------------
\* C22
\* ------------------------------------------------------------------------
\* C22: load() calls fetch for no asset that carries decoded data; of two
\* loads of the same level made one after the other, no other load being in
\* progress, the second fetches no asset the first has fetched, and when it
\* completes the same assets carry decoded data as when it began.
C22_LoadIdempotent ==
  /\ step.op = "loadLevel" => step.fetched \cap step.decoded = {}
  /\ (step.op = "loadLevel" /\ step.again) => step.fetched \cap step.first = {}
  /\ (step.op = "load settled" /\ step.again /\ step.solo /\ ~step.threw)
       => DecodedAssets(assets) = step.began

\* ------------------------------------------------------------------------
\* C23
\* ------------------------------------------------------------------------
\* C23: when the load() of a level completes while another level is the
\* active one, the assets only the objects of the active level use have no
\* data any more and every asset the objects of the loaded level use has;
\* stated for the loads during which no other load is in progress.
C23_ReleaseOnSwitch ==
  (step.op = "load settled" /\ ~step.threw /\ step.solo
     /\ step.level \in Levels /\ step.level # step.id)
    => /\ \A a \in LevelAssets[step.level] \ LevelAssets[step.id] :
            assets[a].data = NoData
       /\ \A a \in LevelAssets[step.id] : assets[a].data # NoData

\* ------------------------------------------------------------------------
\* C24
\* ------------------------------------------------------------------------
\* C24: when the fetch or the decoding of an asset fails during load(), the
\* failure is raised to the caller of loadLevel, every asset that carried
\* decoded data still carries it, and state.level is the level it was.
C24_FailedLoadKeepsLevel ==
  (step.op = "load settled" /\ ~step.ok)
    => /\ step.threw
       /\ step.decoded \subseteq DecodedAssets(assets)
       /\ game.level = step.level

\* A load fails while another level is active, one of whose own assets
\* carries decoded data.
C24_Witness ==
  /\ step.op = "load settled" /\ ~step.ok
  /\ step.level \in Levels /\ step.level # step.id
  /\ (LevelAssets[step.level] \ LevelAssets[step.id]) \cap step.decoded # {}
  /\ game.level = step.level /\ game.paused

\* ------------------------------------------------------------------------
\* C25
\* ------------------------------------------------------------------------
\* C25: after any sequence of keydown and keyup events an action is in
\* currentActions exactly when one of its controls is down; so a control of
\* several actions activates them all, and an action two of whose controls
\* are down stays active until both are up.
C25_ActiveIffControlHeld ==
  \A action \in DOMAIN Actions :
    action \in currentActions(controls)
      <=> \E k \in 1..Len(Actions[action]) : Actions[action][k] \in env.held

\* ArrowUp, a control of up and of jump, has just gone up while KeyW was
\* down: both actions were active, and up still is.
C25_Witness ==
  /\ step.op = "keyup" /\ step.code = "ArrowUp"
  /\ {"up", "jump"} \subseteq step.active
  /\ "KeyW" \in env.held /\ "Space" \notin env.held
  /\ "up" \in currentActions(controls)
  /\ "jump" \notin currentActions(controls)

\* ------------------------------------------------------------------------
\* C26
\* ------------------------------------------------------------------------
\* C26: moveByVector with the vector (0, 0) sets the speed (0, 0), produces
\* no NaN, and leaves the position of the object as it was.
C26_ZeroVectorStationary ==
  (step.op = "moveByVector" /\ step.vector = [x |-> 0, y |-> 0])
    => /\ step.speed = [x |-> 0, y |-> 0]
       /\ step.result = step.before[step.this].position
       /\ objects[step.this].position = step.before[step.this].position

\* ------------------------------------------------------------------------
\* C27
\* ------------------------------------------------------------------------
\* Vectors of the same direction: parallel and pointing the same way.
SameDirection(v, w) ==
  /\ v.x * w.y = v.y * w.x
  /\ v.x * w.x + v.y * w.y > 0

\* C27: for a vector other than (0, 0), the speed moveByVector sets is no
\* longer than maxSpeed and is the same for every vector of that direction;
\* for (k, 0) and (0, k) with k > 0 it is (maxSpeed, 0) and (0, maxSpeed).
C27_SpeedNormalized ==
  (step.op = "moveByVector" /\ step.vector # [x |-> 0, y |-> 0])
    => LET this == step.before[step.this]
           v == step.vector
       IN /\ step.speed.x * step.speed.x + step.speed.y * step.speed.y
               <= this.maxSpeed * this.maxSpeed
          /\ \A w \in Vectors :
               SameDirection(v, w) => moveByVectorSpeed(this, w.x, w.y) = step.speed
          /\ (v.y = 0 /\ v.x > 0) => step.speed = [x |-> this.maxSpeed, y |-> 0]
          /\ (v.x = 0 /\ v.y > 0) => step.speed = [x |-> 0, y |-> this.maxSpeed]

\* ------------------------------------------------------------------------
\* C28
\* ------------------------------------------------------------------------
\* C28: a call of move() changes nothing but the x and y of the position of
\* the object it is called on, and these only with apply: the level has the
\* same objects in the same order afterwards, no probe among them, every
\* other object is as it was, the mover has its size, elevation and flags,
\* and without apply its position too.
C28_MoveChangesOnlyOwnPosition ==
  [][(last.op = "none" /\ last'.op = "move")
       => /\ Len(objects') = Len(objects)
          /\ \A j \in 1..Len(objects) : j # last'.this => objects'[j] = objects[j]
          /\ objects'[last'.this] =
               [objects[last'.this] EXCEPT !.position = objects'[last'.this].position]
          /\ ~last'.apply => objects' = objects]_vars

\* A move() with apply whose first probe collided has moved the object.
C28_Witness ==
  /\ Moved /\ last.apply
  /\ moveTrace(Before, last.this, last.speed).collidesXY
  /\ objects[last.this].position # last.oldPosition

\* ------------------------------------------------------------------------
\* C29
\* ------------------------------------------------------------------------
\* C29: a render that is not skipped draws every object of the level once,
\* by nondecreasing elevation, objects of the same elevation in the order
\* they were added to the level; it leaves the objects as they were.
C29_DrawnByElevation ==
  (step.op = "render" /\ step.rendered)
    => /\ Len(step.order) = Len(objects)
       /\ \A i \in 1..Len(objects) : \E k \in 1..Len(step.order) : step.order[k] = i
       /\ \A k \in 1..(Len(step.order) - 1) :
            LET a == step.order[k]
                b == step.order[k + 1]
            IN \/ objects[a].z < objects[b].z
               \/ objects[a].z = objects[b].z /\ a < b
       /\ objects = step.before

\* A render has drawn an object added later before one added earlier, and
\* two objects of the same elevation, after the player had moved.
C29_Witness ==
  /\ step.op = "render" /\ step.rendered
  /\ \E k \in 1..(Len(step.order) - 1) : step.order[k] > step.order[k + 1]
  /\ \E k \in 1..(Len(step.order) - 1) :
       objects[step.order[k]].z = objects[step.order[k + 1]].z
  /\ objects[3].position # [x |-> 0, y |-> 0]

C33_InFlightFrameInvokesNothing ==
  (TickFrame /\ ~step.paused /\ step.updating > 0 /\ step.ticks > 0)
    => step.calls = <<>>

\* ------------------------------------------------------------------------
\* C35
\* ------------------------------------------------------------------------
\* C35: at the end of every unpaused frame lastTick is at most the timestamp
\* of the frame and at least that less tickDuration; and lastTick is always
\* the lastTick play() set plus tickDuration times the sum of the tick
\* counts passed to update.
C35_TickLagBounded ==
  /\ (TickFrame /\ ~step.paused)
       => /\ 0 <= step.frameTime - game.lastTick
          /\ step.frameTime - game.lastTick <= TickDuration
  /\ game.lastTick = hist.baseline + TickDuration * hist.delivered

\* An unpaused frame in which no tick was due ends a whole tick behind, after
\* updates that were passed three ticks or more.
C35_Witness ==
  /\ TickFrame /\ ~step.paused
  /\ step.frameTime - game.lastTick = TickDuration
  /\ hist.delivered >= 3
  /\ step.calls = <<>>

\* ------------------------------------------------------------------------
\* C36
\* ------------------------------------------------------------------------
\* C36: when a loadLevel call for a registered level has completed paused is
\* false, also when pause() had been called before and unpause() has not
\* been called since.
C36_LoadLevelUnpauses ==
  (step.op = "loadLevel done" /\ step.id \in Levels) => ~game.paused

\* pause() was called and unpause() was not; a loadLevel call has completed
\* since, and a frame has rendered the level.
C36_Witness ==
  /\ hist.userPaused /\ env.loading = <<>>
  /\ DrawFrame /\ step.rendered /\ step.draws > 0

\* ------------------------------------------------------------------------
\* C38
\* ------------------------------------------------------------------------
\* C38: once play() has started the loops, state.level is a registered level
\* whenever the game is not paused, whatever loadLevel calls are made.
C38_ActiveLevelRegistered ==
  (env.phase = "playing" /\ ~game.paused) => game.level \in Levels

\* ------------------------------------------------------------------------
\* C37
\* ------------------------------------------------------------------------
\* C37: once every loadLevel call has completed, each asset used by the
\* objects of the active level carries decoded data (every level has its
\* audio context, so that each decoding yields data).
C37_ActiveLevelDecoded ==
  (loads = <<>> /\ game.level \in Levels /\ \A l \in Levels : levels[l].audioCtx)
    => LevelAssets[game.level] \subseteq DecodedAssets(assets)

\* ------------------------------------------------------------------------
\* C34
\* ------------------------------------------------------------------------
\* The rectangles of a and b share an area.
Overlap(a, b) ==
  /\ a.position.x < b.position.x + b.width /\ b.position.x < a.position.x + a.width
  /\ a.position.y < b.position.y + b.height /\ b.position.y < a.position.y + a.height

\* d is the signed gap between the extents [a0, a1] and [b0, b1] of one axis:
\* 0 when they overlap or touch, otherwise the distance from the edge of a to
\* the nearest edge of b, positive when b lies on the increasing side.
AxisGap(d, a0, a1, b0, b1) ==
  /\ (a0 <= b1 /\ b0 <= a1) => d = 0
  /\ b0 > a1 => d = b0 - a1
  /\ b1 < a0 => d = b1 - a0

\* a moved by d.
Translated(a, d) == [a EXCEPT !.position.x = @ + d.x, !.position.y = @ + d.y]

\* C34: a.distanceTo(b) is (0, 0) when the rectangles overlap; otherwise it
\* is, on each axis, the signed gap between the nearest edges, so that a moved
\* by it touches b on every axis that separated them and does not overlap b;
\* and b.distanceTo(a) is its opposite.
C34_DistanceIsSignedGap ==
  last.op = "distanceTo" =>
    LET a == objects[last.this]
        b == objects[last.obj]
        d == last.result
        back == distanceTo(b, a)
        t == Translated(a, d)
    IN /\ Overlap(a, b) => d = [x |-> 0, y |-> 0]
       /\ AxisGap(d.x, a.position.x, a.position.x + a.width,
                  b.position.x, b.position.x + b.width)
       /\ AxisGap(d.y, a.position.y, a.position.y + a.height,
                  b.position.y, b.position.y + b.height)
       /\ d.x > 0 => t.position.x + t.width = b.position.x
       /\ d.x < 0 => t.position.x = b.position.x + b.width
       /\ d.y > 0 => t.position.y + t.height = b.position.y
       /\ d.y < 0 => t.position.y = b.position.y + b.height
       /\ ~Overlap(a, b) => ~Overlap(t, b)
       /\ back.x = 0 - d.x /\ back.y = 0 - d.y

\* distanceTo was called on two objects apart on both axes, the second one
\* below and to the left of the first.
C34_Witness ==
  /\ last.op = "distanceTo"
  /\ last.result.x < 0 /\ last.result.y > 0

\* ------------------------------------------------------------------------
\* C39
\* ------------------------------------------------------------------------
\* v is a displacement no longer than the speed s and not opposed to it.
Within(v, s) ==
  /\ (IF v < 0 THEN 0 - v ELSE v) <= (IF s < 0 THEN 0 - s ELSE s)
  /\ v * s >= 0

\* C39: the displacement move() commits is on each axis no longer than the
\* speed and has its sign or is zero.
C39_DisplacementWithinSpeed ==
  Moved =>
    /\ Within(last.result.x - last.oldPosition.x, last.speed.x)
    /\ Within(last.result.y - last.oldPosition.y, last.speed.y)

\* ------------------------------------------------------------------------
\* C40
\* ------------------------------------------------------------------------
\* The level with the collision flag of object i inverted.
Twin(objs, i) == [objs EXCEPT ![i].collision = ~@]

\* The indices of the objects of the level that are object i or have
\* collision true, in order.
Solid(objs, i) ==
  SelectSeq([k \in 1..Len(objs) |-> k], LAMBDA k : k = i \/ objs[k].collision)

C31_AssetsSnapshot ==
  /\ \A k \in 1..Len(objects) :
        objects[k].assets =
          filterAssets(SubSeq(assets, 1, objects[k].born), objects[k].names)
  /\ step.op = "loadLevel" =>
        \A a \in step.fetched :
          \E k \in 1..Len(objects) :
            /\ objects[k].level = step.found
            /\ a <= objects[k].born /\ assets[a].id \in objects[k].names

\* The level of an object that names an asset registered after it has been
\* loaded: the load fetched another asset and left that one without data.
C31_Witness ==
  /\ step.op = "loadLevel" /\ step.found # 0 /\ step.fetched # {}
  /\ \E k \in 1..Len(objects), a \in 1..Len(assets) :
        /\ objects[k].level = step.found
        /\ a > objects[k].born /\ assets[a].id \in objects[k].names
        /\ assets[a].data = NoData

\* ------------------------------------------------------------------------
\* C32
\* ------------------------------------------------------------------------
\* C32: no two levels of the game have the same id.
C32_LevelIdsUnique ==
  \A i, j \in 1..Len(levels) : levels[i].id = levels[j].id => i = j

====
